---- MODULE Spec2Model ----
(***************************************************************************)
(* Model of obsign's `sign` command (src/obsign/__main__.py).              *)
(*                                                                         *)
(* File names are sequences of one-character strings, so that the glob of  *)
(* line 53, the slice and int() of line 54 and the format of line 56 are   *)
(* computed on the characters, as the code computes them.  The signature   *)
(* directory is a function from the names it holds to their contents; a    *)
(* content records which invocation wrote the file last and what it holds. *)
(* The external tools (gpg, openssl, curl) are inputs: their exit status,  *)
(* their captured streams and whether they left their output file.         *)
(***************************************************************************)
EXTENDS Integers, Sequences, FiniteSets, TLC

\* ------------------------------------------------------------ bounds
\* Number of sign invocations in one behaviour.
MaxRuns == 2
\* Largest number of earlier versions of a.md in a small initial directory.
MaxInitial == 2
\* Largest number of earlier versions of a.md.b.rst in the initial directory.
MaxInitialOther == 1

\* ------------------------------------------------------------ program constants
\* f"{sig_number:03}": the minimum field width of the version (line 56).
PadWidth == 3
\* prev_versions.name[-7:-4]: the slice that is parsed as the version (line 54).
SliceStart == -7
SliceStop == -4

\* ------------------------------------------------------------ names
Procs == {1, 2}

DocA == <<"a", ".", "m", "d">>
DocAB == <<"a", ".", "m", "d", ".", "b", ".", "r", "s", "t">>
DocT == <<"t", ".", "t", "x", "t">>
DocP == <<"p", ".", "p", "d", "f">>
Docs == {DocA, DocAB, DocT, DocP}
\* The documents of the concurrent specification: no name is a prefix of another.
ConcDocs == {DocA, DocT}

Dot == <<".">>
AscExt == <<".", "a", "s", "c">>
TsqExt == <<".", "a", "p", "p", "l", "e", ".", "t", "s", "q">>
TsrExt == <<".", "a", "p", "p", "l", "e", ".", "t", "s", "r">>
RootCertificate ==
    <<"A", "p", "p", "l", "e", "I", "n", "c", "R", "o", "o", "t",
      "C", "e", "r", "t", "i", "f", "i", "c", "a", "t", "e", ".", "p", "e", "m">>
SupportedSuffixes == {<<".", "m", "d">>, <<".", "t", "x", "t">>, <<".", "r", "s", "t">>}

DigitChars == <<"0", "1", "2", "3", "4", "5", "6", "7", "8", "9">>
DigitSet == {DigitChars[i] : i \in 1..10}
DigitVal(c) == (CHOOSE i \in 1..10 : DigitChars[i] = c) - 1

\* ------------------------------------------------------------ pure functions
MaxOf(a, b) == IF a > b THEN a ELSE b

\* Set maximum, 0 for the empty set.
SetMax(S) == IF S = {} THEN 0 ELSE CHOOSE x \in S : \A y \in S : y <= x

\* pathlib's PurePath.suffix: from the last dot of the name, unless the name
\* has no dot, starts with its only dot or ends with a dot.
Suffix(name) ==
    LET dots == {i \in 1..Len(name) : name[i] = "."}
        i == SetMax(dots)
    IN  IF dots = {} \/ i = 1 \/ i = Len(name) THEN <<>>
        ELSE SubSeq(name, i, Len(name))

\* The decimal digits of n, most significant first.
RECURSIVE Decimal(_)
Decimal(n) ==
    IF n < 10 THEN <<DigitChars[n + 1]>>
    ELSE Decimal(n \div 10) \o <<DigitChars[(n % 10) + 1]>>

RECURSIVE ZeroPad(_, _)
ZeroPad(s, w) == IF Len(s) >= w THEN s ELSE ZeroPad(<<"0">> \o s, w)

\* f"{n:03}": zero-padded to AT LEAST PadWidth digits; longer numbers keep
\* all their digits.
Format03(n) == ZeroPad(Decimal(n), PadWidth)

\* file.name + f".{sig_number:03}.asc"
SigName(doc, n) == doc \o Dot \o Format03(n) \o AscExt

\* output_file.name + ".apple.tsq" / ".apple.tsr"
TsqName(sig) == sig \o TsqExt
TsrName(sig) == sig \o TsrExt

\* Python's s[a:b] for negative a and b: both are counted from the end and
\* clamped at the start of the string.
PySlice(s, a, b) ==
    LET lo == MaxOf(Len(s) + a, 0)
        hi == MaxOf(Len(s) + b, 0)
    IN  SubSeq(s, lo + 1, hi)

\* int(s) on a string of the model's alphabet (letters, digits, dots):
\* the value of a non-empty digit string, and ValueError (-1) otherwise.
ValueError == -1
RECURSIVE DigitsValue(_)
DigitsValue(s) ==
    IF s = <<>> THEN 0
    ELSE 10 * DigitsValue(SubSeq(s, 1, Len(s) - 1)) + DigitVal(s[Len(s)])
PyInt(s) ==
    IF s # <<>> /\ \A i \in 1..Len(s) : s[i] \in DigitSet
    THEN DigitsValue(s) ELSE ValueError

\* Path.glob(f"{file.name}.*.asc") on a name: the name starts with the
\* document's name and a dot and ends in ".asc"; the star takes whatever lies
\* between, dots included, possibly nothing.
GlobMatch(name, doc) ==
    /\ Len(name) >= Len(doc) + 1 + Len(AscExt)
    /\ SubSeq(name, 1, Len(doc) + 1) = doc \o Dot
    /\ SubSeq(name, Len(name) - Len(AscExt) + 1, Len(name)) = AscExt

\* The names the loop of lines 53-55 visits.
PrevVersions(names, doc) == {n \in names : GlobMatch(n, doc)}

\* int(prev_versions.name[-7:-4]) of one visited name.
ParsedVersion(name) == PyInt(PySlice(name, SliceStart, SliceStop))

\* Lines 52-55: ValueError when int() fails on a visited name, and otherwise
\* the largest parsed number plus one, 0 when nothing is visited.  The loop
\* keeps a running maximum, so the order of the visit does not matter.
ResolveVersion(names, doc) ==
    LET seen == PrevVersions(names, doc)
    IN  IF \E n \in seen : ParsedVersion(n) = ValueError THEN ValueError
        ELSE SetMax({0} \cup {ParsedVersion(n) + 1 : n \in seen})

\* "Good signature" in verify_result.stderr, on texts that are sequences of
\* words.
GoodSignature == <<"Good", "signature">>
Contains(text, pat) ==
    \E i \in 1..(Len(text) - Len(pat) + 1) : SubSeq(text, i, i + Len(pat) - 1) = pat

\* The diagnostic texts gpg --verify can leave on its standard error.
Diagnostics ==
    { <<"gpg:", "Good", "signature", "from", "key">>,
      <<"gpg:", "BAD", "signature", "from", "key">>,
      <<"gpg:", "Good">>,
      <<>> }

\* ------------------------------------------------------------ state
VARIABLES
    dir,            \* the signature directory: name -> [writer, data]
    nextId,         \* number of sign invocations started so far
    pc,             \* where each invocation stands in sign()
    id,             \* the number of the invocation a process runs
    file,           \* file.name, the document's name
    sig_number,     \* line 52-55
    output_file,    \* line 56 (the name inside the signature directory)
    verify_stderr,  \* what gpg --verify left on its standard error
    invoked,        \* the external tools run so far, with their exit status
    written,        \* the names this invocation created or wrote
    log,            \* what console.print has shown, with its style
    raised,         \* the exception that ended the invocation, or "none"
    exit            \* the exit status of the command, -1 while it runs

vars == <<dir, nextId, pc, id, file, sig_number, output_file, verify_stderr,
          invoked, written, log, raised, exit>>

ExitCodes == {0, 1}
Running == -1

\* ------------------------------------------------------------ the directory
Put(d, name, c) == [n \in (DOMAIN d) \cup {name} |-> IF n = name THEN c ELSE d[n]]
Remove(d, name) == [n \in (DOMAIN d) \ {name} |-> d[n]]
Merge(d, e) == [n \in (DOMAIN d) \cup (DOMAIN e) |-> IF n \in DOMAIN d THEN d[n] ELSE e[n]]

\* What n earlier invocations on doc, each halted after its signature was
\* written, have left: the signatures of versions 0 .. n-1, named as line 56
\* names them.  Writer 0 stands for the invocations before the behaviour.
Prior(doc, n) == [name \in {SigName(doc, v) : v \in 0..(n - 1)} |-> [writer |-> 0, data |-> "sig"]]

\* The first version number that no longer fits PadWidth digits.
Limit == 10 ^ PadWidth

\* Numbers of earlier versions of a.md around the point where the version
\* outgrows PadWidth digits.
LongCounts == {Limit - 1, Limit, Limit + 1}

TrustAnchors == [name \in {RootCertificate} |-> [writer |-> 0, data |-> "pem"]]

InitDirs ==
    { Merge(Merge(Prior(DocA, n), Prior(DocAB, m)), TrustAnchors) :
        n \in 0..MaxInitial, m \in 0..MaxInitialOther }

SmallInitDirs ==
    { Merge(Prior(DocA, n), TrustAnchors) : n \in 0..MaxInitial }

LongInitDirs ==
    { Merge(Prior(DocA, n), TrustAnchors) : n \in LongCounts }

\* ------------------------------------------------------------ initial states
InitProcs ==
    /\ nextId = 0
    /\ pc = [p \in Procs |-> "idle"]
    /\ id = [p \in Procs |-> 0]
    /\ file = [p \in Procs |-> <<>>]
    /\ sig_number = [p \in Procs |-> 0]
    /\ output_file = [p \in Procs |-> <<>>]
    /\ verify_stderr = [p \in Procs |-> <<>>]
    /\ invoked = [p \in Procs |-> <<>>]
    /\ written = [p \in Procs |-> {}]
    /\ log = [p \in Procs |-> <<>>]
    /\ raised = [p \in Procs |-> "none"]
    /\ exit = [p \in Procs |-> Running]

Init == dir \in InitDirs /\ InitProcs

InitConc == dir \in SmallInitDirs /\ InitProcs

InitLong == dir \in LongInitDirs /\ InitProcs

\* ------------------------------------------------------------ helpers of the actions
Line(style, text) == [style |-> style, text |-> text]
Call(tool, rc) == [tool |-> tool, rc |-> rc]

\* An uncaught exception: the command ends with exit status 1.
Raise(p, exc) ==
    /\ pc' = [pc EXCEPT ![p] = "done"]
    /\ raised' = [raised EXCEPT ![p] = exc]
    /\ exit' = [exit EXCEPT ![p] = 1]

\* sign() returns: click ends the command with exit status 0.
Return(p) ==
    /\ pc' = [pc EXCEPT ![p] = "done"]
    /\ raised' = raised
    /\ exit' = [exit EXCEPT ![p] = 0]

Goto(p, label) ==
    /\ pc' = [pc EXCEPT ![p] = label]
    /\ UNCHANGED <<raised, exit>>

\* ------------------------------------------------------------ actions
\* Lines 44-49 and 145-146: a new invocation on document doc.  inOb says
\* whether the document lies under OB_DIR, the parent of the signature
\* directory; file.relative_to(ob_dir) of line 46 raises ValueError when it
\* does not.
Start(p, doc, inOb) ==
    /\ pc[p] \in {"idle", "done"}
    /\ nextId < MaxRuns
    /\ nextId' = nextId + 1
    /\ id' = [id EXCEPT ![p] = nextId + 1]
    /\ file' = [file EXCEPT ![p] = doc]
    /\ sig_number' = [sig_number EXCEPT ![p] = 0]
    /\ output_file' = [output_file EXCEPT ![p] = <<>>]
    /\ verify_stderr' = [verify_stderr EXCEPT ![p] = <<>>]
    /\ invoked' = [invoked EXCEPT ![p] = <<>>]
    /\ written' = [written EXCEPT ![p] = {}]
    /\ dir' = dir
    /\ IF ~inOb
       THEN /\ log' = [log EXCEPT ![p] = <<>>]
            /\ Raise(p, "ValueError")
       ELSE IF Suffix(doc) \in SupportedSuffixes
       THEN /\ log' = [log EXCEPT ![p] = <<Line("cyan", "Signing file"),
                                           Line("yellow", "Text file detected")>>]
            /\ pc' = [pc EXCEPT ![p] = "resolve"]
            /\ raised' = [raised EXCEPT ![p] = "none"]
            /\ exit' = [exit EXCEPT ![p] = Running]
       ELSE /\ log' = [log EXCEPT ![p] = <<Line("cyan", "Signing file")>>]
            /\ Raise(p, "NotImplementedError")

\* Lines 51-56: version resolution and the output name.
Resolve(p) ==
    /\ pc[p] = "resolve"
    /\ LET v == ResolveVersion(DOMAIN dir, file[p])
       IN  IF v = ValueError
           THEN /\ Raise(p, "ValueError")
                /\ UNCHANGED <<sig_number, output_file>>
           ELSE /\ sig_number' = [sig_number EXCEPT ![p] = v]
                /\ output_file' = [output_file EXCEPT ![p] = SigName(file[p], v)]
                /\ Goto(p, "gpg_sign")
    /\ UNCHANGED <<dir, nextId, id, file, verify_stderr, invoked, written, log>>

\* GpgSign without check=True: a failed signer is not noticed and the
\* workflow goes on to the self-verify step.
GpgSignUnchecked(p, rc) ==
    /\ pc[p] = "gpg_sign"
    /\ invoked' = [invoked EXCEPT ![p] = Append(@, Call("gpg --clearsign", rc))]
    /\ IF rc = 0
       THEN /\ dir' = Put(dir, output_file[p], [writer |-> id[p], data |-> "sig"])
            /\ written' = [written EXCEPT ![p] = @ \cup {output_file[p]}]
       ELSE UNCHANGED <<dir, written>>
    /\ log' = [log EXCEPT ![p] = Append(@, Line("magenta", "Created signed file"))]
    /\ Goto(p, "gpg_verify")
    /\ UNCHANGED <<nextId, id, file, sig_number, output_file, verify_stderr>>

\* GpgSign that creates its output exclusively: the signer does not run when
\* the output name is already in the directory.
GpgSignExclusive(p, rc) ==
    /\ pc[p] = "gpg_sign"
    /\ output_file[p] \notin DOMAIN dir
    /\ invoked' = [invoked EXCEPT ![p] = Append(@, Call("gpg --clearsign", rc))]
    /\ IF rc = 0
       THEN /\ dir' = Put(dir, output_file[p], [writer |-> id[p], data |-> "sig"])
            /\ written' = [written EXCEPT ![p] = @ \cup {output_file[p]}]
       ELSE UNCHANGED <<dir, written>>
    /\ IF rc # 0
       THEN /\ Raise(p, "CalledProcessError")
            /\ log' = log
       ELSE /\ log' = [log EXCEPT ![p] = Append(@, Line("magenta", "Created signed file"))]
            /\ Goto(p, "gpg_verify")
    /\ UNCHANGED <<nextId, id, file, sig_number, output_file, verify_stderr>>

\* Lines 58-64: gpg --output output_file --clearsign file, check=True.  gpg
\* that exits 0 has written output_file, over whatever was there; gpg that
\* fails leaves the directory as it was.
GpgSign(p, rc) ==
    /\ pc[p] = "gpg_sign"
    /\ invoked' = [invoked EXCEPT ![p] = Append(@, Call("gpg --clearsign", rc))]
    /\ IF rc = 0
       THEN /\ dir' = Put(dir, output_file[p], [writer |-> id[p], data |-> "sig"])
            /\ written' = [written EXCEPT ![p] = @ \cup {output_file[p]}]
       ELSE UNCHANGED <<dir, written>>
    /\ IF rc # 0
       THEN /\ Raise(p, "CalledProcessError")
            /\ log' = log
       ELSE /\ log' = [log EXCEPT ![p] = Append(@, Line("magenta", "Created signed file"))]
            /\ Goto(p, "gpg_verify")
    /\ UNCHANGED <<nextId, id, file, sig_number, output_file, verify_stderr>>

\* Lines 66-76: gpg --verify output_file, check=True, its streams captured.
GpgVerify(p, rc, stderr) ==
    /\ pc[p] = "gpg_verify"
    /\ invoked' = [invoked EXCEPT ![p] = Append(@, Call("gpg --verify", rc))]
    /\ verify_stderr' = [verify_stderr EXCEPT ![p] = stderr]
    /\ IF rc # 0
       THEN /\ Raise(p, "CalledProcessError")
            /\ log' = log
       ELSE IF Contains(stderr, GoodSignature)
       THEN /\ log' = [log EXCEPT ![p] = @ \o <<Line("green", "verify.stderr"),
                                                Line("plain", "")>>]
            /\ Goto(p, "ts_query")
       ELSE /\ log' = [log EXCEPT ![p] = Append(@, Line("red", "verify.stderr"))]
            /\ Return(p)
    /\ UNCHANGED <<dir, nextId, id, file, sig_number, output_file, written>>

\* Lines 78-97: openssl ts -query ... -out tsq_file, check=True.  The tool
\* that exits 0 has written tsq_file; the tool that fails leaves the
\* directory as it was.
TsQuery(p, rc) ==
    /\ pc[p] = "ts_query"
    /\ invoked' = [invoked EXCEPT ![p] = Append(@, Call("openssl ts -query", rc))]
    /\ IF rc = 0
       THEN /\ dir' = Put(dir, TsqName(output_file[p]), [writer |-> id[p], data |-> "tsq"])
            /\ written' = [written EXCEPT ![p] = @ \cup {TsqName(output_file[p])}]
       ELSE UNCHANGED <<dir, written>>
    /\ IF rc # 0
       THEN /\ Raise(p, "CalledProcessError")
            /\ log' = log
       ELSE /\ log' = [log EXCEPT ![p] = Append(@, Line("yellow", "Created timestamp query file"))]
            /\ Goto(p, "submit")
    /\ UNCHANGED <<nextId, id, file, sig_number, output_file, verify_stderr>>

\* What curl can leave at the path of --output: the response body, nothing
\* (the file open() created stays empty), or no file at all.
CurlOutcomes == {"tsr", "empty", "absent"}

\* Lines 99-115: open(tsr_file, "w") creates or truncates the response file,
\* then curl ... --output tsr_file runs with check=True.
Submit(p, rc, out) ==
    /\ pc[p] = "submit"
    /\ invoked' = [invoked EXCEPT ![p] = Append(@, Call("curl", rc))]
    /\ LET tsr == TsrName(output_file[p])
           opened == Put(dir, tsr, [writer |-> id[p], data |-> "empty"])
       IN  /\ dir' = IF out = "absent" THEN Remove(opened, tsr)
                     ELSE Put(opened, tsr, [writer |-> id[p], data |-> out])
           /\ written' = [written EXCEPT ![p] = @ \cup {tsr}]
    /\ IF rc # 0
       THEN Raise(p, "CalledProcessError")
       ELSE Goto(p, "assert")
    /\ UNCHANGED <<nextId, id, file, sig_number, output_file, verify_stderr, log>>

\* Lines 117-120: assert tsr_file.exists().
AssertTsr(p) ==
    /\ pc[p] = "assert"
    /\ IF TsrName(output_file[p]) \in DOMAIN dir
       THEN /\ log' = [log EXCEPT ![p] = Append(@, Line("magenta", "Received timestamp response"))]
            /\ Goto(p, "ts_verify")
       ELSE /\ log' = log
            /\ Raise(p, "AssertionError")
    /\ UNCHANGED <<dir, nextId, id, file, sig_number, output_file, verify_stderr,
                   invoked, written>>

\* TsVerify run with check=True, like the tools before it: a non-zero exit
\* raises.
TsVerifyChecked(p, rc) ==
    /\ pc[p] = "ts_verify"
    /\ invoked' = [invoked EXCEPT ![p] = Append(@, Call("openssl ts -verify", rc))]
    /\ IF rc = 0
       THEN /\ log' = [log EXCEPT ![p] = Append(@, Line("green", "openssl ts: stdout"))]
            /\ Return(p)
       ELSE /\ log' = log
            /\ Raise(p, "CalledProcessError")
    /\ UNCHANGED <<dir, nextId, id, file, sig_number, output_file, verify_stderr, written>>

\* Lines 122-143: openssl ts -verify, without check: its exit status only
\* chooses what is printed.
TsVerify(p, rc) ==
    /\ pc[p] = "ts_verify"
    /\ invoked' = [invoked EXCEPT ![p] = Append(@, Call("openssl ts -verify", rc))]
    /\ IF rc = 0
       THEN log' = [log EXCEPT ![p] = Append(@, Line("green", "openssl ts: stdout"))]
       ELSE log' = [log EXCEPT ![p] = @ \o <<Line("red", "ts.stdout"), Line("red", "ts.stderr")>>]
    /\ Return(p)
    /\ UNCHANGED <<dir, nextId, id, file, sig_number, output_file, verify_stderr, written>>

\* ------------------------------------------------------------ specifications
\* One step of the invocation that process p runs.
Step(p) ==
    \/ Resolve(p)
    \/ \E rc \in ExitCodes : GpgSign(p, rc)
    \/ \E rc \in ExitCodes, stderr \in Diagnostics : GpgVerify(p, rc, stderr)
    \/ \E rc \in ExitCodes : TsQuery(p, rc)
    \/ \E rc \in ExitCodes, out \in CurlOutcomes : Submit(p, rc, out)
    \/ AssertTsr(p)
    \/ \E rc \in ExitCodes : TsVerify(p, rc)

\* Sequential use: one invocation at a time, each run to its end before the
\* next starts, on any document, lying under OB_DIR or not.
Next ==
    \/ \E doc \in Docs, inOb \in BOOLEAN : Start(1, doc, inOb)
    \/ Step(1)

Spec == Init /\ [][Next]_vars

\* Sequential use on a.md in a directory that already holds about Limit
\* versions of it.
NextLong ==
    \/ Start(1, DocA, TRUE)
    \/ Step(1)

SpecLong == InitLong /\ [][NextLong]_vars

\* Concurrent use: two invocations on the same signature directory, their
\* steps interleaved in any order.
NextConc ==
    \E p \in Procs :
        \/ \E doc \in ConcDocs : Start(p, doc, TRUE)
        \/ Step(p)

SpecConc == InitConc /\ [][NextConc]_vars

\* ------------------------------------------------------------ vocabulary of the claims
Last(s) == s[Len(s)]

ToolsOf(p) == {invoked[p][i].tool : i \in 1..Len(invoked[p])}

Supported(doc) == Suffix(doc) \in SupportedSuffixes

\* name is <doc>.<NNN>.asc: doc, a dot, three or more digits, ".asc".
IsArtifactOf(name, doc) ==
    /\ Len(name) >= Len(doc) + 1 + PadWidth + Len(AscExt)
    /\ SubSeq(name, 1, Len(doc) + 1) = doc \o Dot
    /\ SubSeq(name, Len(name) - Len(AscExt) + 1, Len(name)) = AscExt
    /\ \A i \in (Len(doc) + 2)..(Len(name) - Len(AscExt)) : name[i] \in DigitSet

OwnArtifacts(names, doc) == {n \in names : IsArtifactOf(n, doc)}

\* A signature artifact of any document: a name ending in ".asc".
IsSignature(name) ==
    /\ Len(name) > Len(AscExt)
    /\ SubSeq(name, Len(name) - Len(AscExt) + 1, Len(name)) = AscExt

\* n written with at least three digits, zeros in front.
Padded3(n) ==
    IF n < 10 THEN <<"0", "0">> \o Decimal(n)
    ELSE IF n < 100 THEN <<"0">> \o Decimal(n)
    ELSE Decimal(n)

VersionedName(doc, n) == doc \o Dot \o Padded3(n) \o AscExt

\* ------------------------------------------------------------ C1
\* C1: when the directory holds exactly D.000.asc .. D.k.asc for the
\* document D of an invocation that has finished version resolution, the
\* version is k+1 and the output name is D.<k+1, zero-padded>.asc; when it
\* holds no artifact of D, the version is 0 and the name D.000.asc.
C1_NextVersionIsKPlusOne ==
    \A p \in Procs :
        pc[p] = "gpg_sign" =>
            LET own == OwnArtifacts(DOMAIN dir, file[p])
            IN  /\ own = {} =>
                      /\ sig_number[p] = 0
                      /\ output_file[p] = VersionedName(file[p], 0)
                /\ \A k \in 0..(Limit + MaxRuns) :
                      own = {VersionedName(file[p], i) : i \in 0..k} =>
                          /\ sig_number[p] = k + 1
                          /\ output_file[p] = VersionedName(file[p], k + 1)

\* ------------------------------------------------------------ C2
\* C2: the version resolved for D is the one resolved from D's own
\* artifacts alone, whatever other documents' artifacts the directory holds,
\* and version resolution does not fail.
C2_OtherDocumentsIgnored ==
    \A p \in Procs :
        /\ pc[p] = "gpg_sign" =>
              sig_number[p] = ResolveVersion(OwnArtifacts(DOMAIN dir, file[p]), file[p])
        /\ ~(raised[p] = "ValueError" /\ log[p] # <<>>)

\* ------------------------------------------------------------ C3
\* C3: in sequential use no step changes or removes a signature artifact
\* that is already in the directory.
C3_SignaturesNeverRewritten ==
    [][\A n \in DOMAIN dir :
          IsSignature(n) => n \in DOMAIN dir' /\ dir'[n] = dir[n]]_vars

\* ------------------------------------------------------------ C4
\* C4: an invocation on an unsupported extension ends with a non-zero exit
\* status, no external tool run and nothing written; an invocation on a
\* supported extension has run the signer by the time it ends.
C4_DispatchOnExtension ==
    \A p \in Procs :
        pc[p] = "done" =>
            IF Supported(file[p])
            THEN invoked[p] # <<>> /\ invoked[p][1].tool = "gpg --clearsign"
            ELSE exit[p] # 0 /\ invoked[p] = <<>> /\ written[p] = {}

\* ------------------------------------------------------------ C5
\* C5: once the self-verify step has run and its diagnostic lacks "Good
\* signature", the invocation has halted with the diagnostic printed last in
\* error style, no timestamp tool run and no query or response written,
\* whatever the exit status of the verifier.
C5_BadDiagnosticHalts ==
    \A p \in Procs :
        ("gpg --verify" \in ToolsOf(p) /\ ~Contains(verify_stderr[p], GoodSignature)) =>
            /\ pc[p] = "done"
            /\ log[p] # <<>> /\ Last(log[p]) = Line("red", "verify.stderr")
            /\ ToolsOf(p) = {"gpg --clearsign", "gpg --verify"}
            /\ written[p] \subseteq {output_file[p]}

\* ------------------------------------------------------------ C6
\* C6: a finished invocation has a non-zero exit status exactly when the
\* extension is unsupported or the tool of step 2, 4 or 5 exited non-zero.
C6_ExitStatus ==
    \A p \in Procs :
        pc[p] = "done" =>
            (exit[p] # 0 <=>
                \/ ~Supported(file[p])
                \/ \E i \in 1..Len(invoked[p]) :
                      /\ invoked[p][i].tool \in {"gpg --clearsign", "openssl ts -query", "curl"}
                      /\ invoked[p][i].rc # 0)

\* ------------------------------------------------------------ C7
\* C7: the invocation stands before the timestamp verifier of step 6 only
\* with a response artifact that exists and is not empty.
C7_VerifierNeedsNonEmptyResponse ==
    \A p \in Procs :
        pc[p] = "ts_verify" =>
            /\ TsrName(output_file[p]) \in DOMAIN dir
            /\ dir[TsrName(output_file[p])].data # "empty"

\* ------------------------------------------------------------ C8
\* C8: an invocation whose timestamp verifier exited non-zero has ended
\* normally with exit status 0, the verifier's standard output and standard
\* error printed last in error style, and the signature, query and response
\* it created still in the directory as it wrote them.
C8_VerifierFailureOnlyReported ==
    \A p \in Procs :
        ("openssl ts -verify" \in ToolsOf(p) /\ Last(invoked[p]).rc # 0) =>
            /\ pc[p] = "done" /\ exit[p] = 0 /\ raised[p] = "none"
            /\ Len(log[p]) >= 2
            /\ SubSeq(log[p], Len(log[p]) - 1, Len(log[p]))
                   = <<Line("red", "ts.stdout"), Line("red", "ts.stderr")>>
            /\ written[p] = {output_file[p], TsqName(output_file[p]), TsrName(output_file[p])}
            /\ written[p] \subseteq DOMAIN dir
            /\ dir[output_file[p]] = [writer |-> id[p], data |-> "sig"]
            /\ dir[TsqName(output_file[p])] = [writer |-> id[p], data |-> "tsq"]
            /\ dir[TsrName(output_file[p])].writer = id[p]

C8_Witness ==
    \E p \in Procs :
        /\ pc[p] = "done"
        /\ "openssl ts -verify" \in ToolsOf(p)
        /\ Last(invoked[p]).rc # 0
        /\ exit[p] = 0

\* ------------------------------------------------------------ C9
\* C9: when the tool of step 2, 3, 4 or 5 has exited non-zero, it is the
\* last tool the invocation ran, the invocation has ended with a non-zero
\* exit status, nothing a later step owns has been written, and what the
\* earlier steps wrote is still in the directory as they wrote it.
FailFastTools == <<"gpg --clearsign", "gpg --verify", "openssl ts -query", "curl">>

C9_FailFast ==
    \A p \in Procs : \A i \in 1..Len(invoked[p]) :
        (invoked[p][i].rc # 0 /\ i <= Len(FailFastTools)) =>
            /\ invoked[p][i].tool = FailFastTools[i]
            /\ i = Len(invoked[p])
            /\ pc[p] = "done" /\ exit[p] # 0
            /\ i = 1 => written[p] = {}
            /\ i \in {2, 3} => written[p] = {output_file[p]}
            /\ i = 4 => written[p] = {output_file[p], TsqName(output_file[p]),
                                      TsrName(output_file[p])}
            /\ i >= 2 => /\ output_file[p] \in DOMAIN dir
                         /\ dir[output_file[p]] = [writer |-> id[p], data |-> "sig"]
            /\ i = 4 => /\ TsqName(output_file[p]) \in DOMAIN dir
                        /\ dir[TsqName(output_file[p])] = [writer |-> id[p], data |-> "tsq"]

C9_Witness ==
    \E p \in Procs :
        /\ Len(invoked[p]) = 3
        /\ invoked[p][3] = Call("openssl ts -query", 1)
        /\ pc[p] = "done"
        /\ output_file[p] \in DOMAIN dir

\* ------------------------------------------------------------ C10
\* C10: nothing protects the version of a concurrent invocation.  Two
\* invocations on the same document that both stand between version
\* resolution and the signer, neither output name yet in the directory, hold
\* the same output name; and the signer of an invocation that stands there
\* can always run and succeed, whether or not its output name has meanwhile
\* been written by the other invocation.
C10_VersionRaceUnprotected ==
    /\ \A p, q \in Procs :
          ( /\ p # q
            /\ pc[p] = "gpg_sign" /\ pc[q] = "gpg_sign"
            /\ file[p] = file[q]
            /\ output_file[p] \notin DOMAIN dir
            /\ output_file[q] \notin DOMAIN dir ) => output_file[p] = output_file[q]
    /\ \A p \in Procs : pc[p] = "gpg_sign" => ENABLED GpgSign(p, 0)

\* Both invocations have signed, under the same output name: the later
\* signature replaced the earlier one.
C10_Witness ==
    \E p, q \in Procs :
        /\ p # q /\ id[p] # id[q]
        /\ output_file[p] = output_file[q]
        /\ invoked[p] # <<>> /\ invoked[p][1] = Call("gpg --clearsign", 0)
        /\ invoked[q] # <<>> /\ invoked[q][1] = Call("gpg --clearsign", 0)
        /\ written[p] \cap written[q] # {}
        /\ dir[output_file[p]].writer = id[q]

====
